---- MODULE Spec2Model ----
(***************************************************************************)
(* Bank-Statement-Analyser: the statement assembler of the parse route     *)
(* (extractStatementDetails, current and earlier version) and the search / *)
(* pagination state of the StatementAnalysis component.                    *)
(*                                                                         *)
(* Numbers are fixed-point decimals counted in thousandths (1000 = 1.000), *)
(* so that rounding to 2 decimal places is a real operation.  Strings are  *)
(* sequences of one-character strings.  A JSON value is a record           *)
(* [t, n, s]: its type tag, its number and its characters.                 *)
(***************************************************************************)
EXTENDS Integers, Sequences, FiniteSets, TLC

VARIABLES content, version, result,
          transactions, search, page, pageSize, effectPending, view,
          route, stage, file, text, thrown, calls, response

vars == <<content, version, result,
          transactions, search, page, pageSize, effectPending, view,
          route, stage, file, text, thrown, calls, response>>
postVars == <<route, stage, file, text, thrown, calls, response>>
serverVars == <<content, version, result, postVars>>
viewVars == <<transactions, search, page, pageSize, effectPending, view>>

\* ------------------------------------------------------------ bounds
\* Longest raw transactions array of a transcription response.
MaxEntries == 2
\* Longest transaction list handed to the StatementAnalysis component.
MaxTx == 12
\* Longest search term drawn from TermChars (longer ones are in FixedTerms).
MaxTermLen == 2

\* ------------------------------------------------------- JSON values
Undefined == [t |-> "undefined", n |-> 0, s |-> <<>>]
Null == [t |-> "null", n |-> 0, s |-> <<>>]
Num(x) == [t |-> "number", n |-> x, s |-> <<>>]
Str(x) == [t |-> "string", n |-> 0, s |-> x]

\* JavaScript's typeof: null is an "object".
typeof(v) == IF v.t = "null" THEN "object" ELSE v.t

\* JavaScript's truthiness, as `||` tests it.
Truthy(v) ==
    CASE v.t = "undefined" -> FALSE
      [] v.t = "null" -> FALSE
      [] v.t = "number" -> v.n # 0
      [] v.t = "string" -> v.s # <<>>
      [] OTHER -> TRUE

\* a || b
OrElse(a, b) == IF Truthy(a) THEN a ELSE b

\* a ?? b
Coalesce(a, b) == IF a.t \in {"undefined", "null"} THEN b ELSE a

\* ------------------------------------------------------------ strings
IsSpace(c) == c = " "

RECURSIVE trimStart(_)
trimStart(s) ==
    IF s # <<>> /\ IsSpace(Head(s)) THEN trimStart(Tail(s)) ELSE s

RECURSIVE trimEnd(_)
trimEnd(s) ==
    IF s # <<>> /\ IsSpace(s[Len(s)])
    THEN trimEnd(SubSeq(s, 1, Len(s) - 1))
    ELSE s

\* String.prototype.trim
trim(s) == trimEnd(trimStart(s))

NoDescription ==
    <<"N", "o", " ", "D", "e", "s", "c", "r", "i", "p", "t", "i", "o", "n">>

DefaultCurrency == <<"$">>

ExtractionFailed == <<"Failed to extract statement details">>

\* ------------------------------------------------- number formatting
Digit(d) == <<"0", "1", "2", "3", "4", "5", "6", "7", "8", "9">>[d + 1]

DigitValue(c) == CHOOSE d \in 0..9 : Digit(d) = c

RECURSIVE DecimalDigits(_)
DecimalDigits(k) ==
    IF k < 10 THEN <<Digit(k)>>
    ELSE DecimalDigits(k \div 10) \o <<Digit(k % 10)>>

Abs(x) == IF x < 0 THEN -x ELSE x

toFixed2_truncating(x) ==
    LET c == Abs(x) \div 10
    IN  (IF x < 0 THEN <<"-">> ELSE <<>>)
        \o DecimalDigits(c \div 100)
        \o <<".">>
        \o <<Digit((c \div 10) % 10), Digit(c % 10)>>

\* Number.prototype.toFixed(2) of x thousandths: the magnitude is rounded to
\* the nearest hundredth, the larger one on a tie, and a negative x keeps
\* its sign even when it rounds to zero ("-0.00").
toFixed2(x) ==
    LET c == (Abs(x) + 5) \div 10
    IN  (IF x < 0 THEN <<"-">> ELSE <<>>)
        \o DecimalDigits(c \div 100)
        \o <<".">>
        \o <<Digit((c \div 10) % 10), Digit(c % 10)>>

RECURSIVE DigitsValue(_)
DigitsValue(s) ==
    IF s = <<>> THEN 0
    ELSE 10 * DigitsValue(SubSeq(s, 1, Len(s) - 1)) + DigitValue(s[Len(s)])

\* parseFloat of a toFixed(2) string, in thousandths.
parseFloat(s) ==
    LET neg == s # <<>> /\ Head(s) = "-"
        body == IF neg THEN Tail(s) ELSE s
        dot == CHOOSE i \in 1..Len(body) : body[i] = "."
        whole == DigitsValue(SubSeq(body, 1, dot - 1))
        frac == DigitsValue(SubSeq(body, dot + 1, Len(body)))
        mag == whole * 1000 + frac * 10
    IN  IF neg THEN -mag ELSE mag

\* ------------------------------------------------- the transactions
\* tx.<field> of a raw array element: an object has its fields, any other
\* non-null value reads every field as undefined.
Field(tx, f) == IF tx.k = "object" THEN tx[f] ELSE Undefined

\* Reading a property of null throws a TypeError.
ReadThrows(tx) == tx.k = "null"

\* typeof v === "number" ? v : 0
resolveMoney(v) == IF typeof(v) = "number" THEN v.n ELSE 0

\* The two early returns on the resolved amounts: ambiguous, invalid.
rejectsMoney(moneyIn, moneyOut) ==
    \/ moneyIn > 0 /\ moneyOut > 0
    \/ moneyIn < 0 \/ moneyOut < 0

amountOf_unsigned(moneyIn, moneyOut) ==
    IF moneyIn > 0 THEN moneyIn ELSE moneyOut

amountOf_swapped(moneyIn, moneyOut) ==
    IF moneyIn > 0 THEN -moneyIn ELSE moneyOut

\* moneyIn > 0 ? moneyIn : -moneyOut
amountOf(moneyIn, moneyOut) == IF moneyIn > 0 THEN moneyIn ELSE -moneyOut

\* tx.description.trim() || "No Description"
descOf(description) ==
    IF trim(description) # <<>> THEN trim(description) ELSE NoDescription

\* The flatMap callback of the current version.
normalizeEntry(tx, currency) ==
    IF typeof(Field(tx, "date")) # "string"
       \/ typeof(Field(tx, "description")) # "string"
    THEN <<>>
    ELSE LET moneyIn == resolveMoney(Field(tx, "moneyIn"))
             moneyOut == resolveMoney(Field(tx, "moneyOut"))
             txCurrency == IF typeof(Field(tx, "currency")) = "string"
                           THEN Field(tx, "currency")
                           ELSE OrElse(currency, Str(DefaultCurrency))
         IN  IF rejectsMoney(moneyIn, moneyOut) THEN <<>>
             ELSE << [date |-> trim(Field(tx, "date").s),
                      desc |-> descOf(Field(tx, "description").s),
                      amount |-> amountOf(moneyIn, moneyOut),
                      currency |-> txCurrency] >>

\* The flatMap callback of the earlier version: no currency.
normalizeEntryEarlier(tx) ==
    IF typeof(Field(tx, "date")) # "string"
       \/ typeof(Field(tx, "description")) # "string"
    THEN <<>>
    ELSE LET moneyIn == resolveMoney(Field(tx, "moneyIn"))
             moneyOut == resolveMoney(Field(tx, "moneyOut"))
         IN  IF rejectsMoney(moneyIn, moneyOut) THEN <<>>
             ELSE << [date |-> trim(Field(tx, "date").s),
                      desc |-> descOf(Field(tx, "description").s),
                      amount |-> amountOf(moneyIn, moneyOut),
                      currency |-> Undefined] >>

\* Array.isArray(rawTransactions) ? rawTransactions.flatMap(...) : []
RECURSIVE flatMapEntries(_, _, _)
flatMapEntries(raw, currency, ver) ==
    IF raw = <<>> THEN <<>>
    ELSE (IF ver = "current" THEN normalizeEntry(Head(raw), currency)
          ELSE normalizeEntryEarlier(Head(raw)))
         \o flatMapEntries(Tail(raw), currency, ver)

normalizeAll(rawTransactions, currency, ver) ==
    IF rawTransactions.t = "array"
    THEN flatMapEntries(rawTransactions.items, currency, ver)
    ELSE <<>>

\* The callback throws on the first element it cannot read.
normalizeThrows(rawTransactions) ==
    /\ rawTransactions.t = "array"
    /\ \E i \in 1..Len(rawTransactions.items) :
          ReadThrows(rawTransactions.items[i])

\* transactions.reduce((acc, t) => acc + t.amount, 0)
RECURSIVE sumTx(_)
sumTx(txs) ==
    IF txs = <<>> THEN 0
    ELSE sumTx(SubSeq(txs, 1, Len(txs) - 1)) + txs[Len(txs)].amount

reconcile(startingBalance, endingBalance, txs) ==
    IF typeof(startingBalance) = "number" /\ typeof(endingBalance) = "number"
    THEN IF parseFloat(toFixed2(startingBalance.n + sumTx(txs)))
            = parseFloat(toFixed2(endingBalance.n))
         THEN "true" ELSE "false"
    ELSE "null"

\* Every field of the catch block's placeholder Ledger.
errorResult ==
    [error |-> Str(ExtractionFailed),
     name |-> Null, address |-> Null, date |-> Null,
     startingBalance |-> Null, endingBalance |-> Null,
     transactions |-> <<>>, reconciles |-> "null", currency |-> Undefined]

\* JSON.parse of the response text throws unless the text is JSON.
parseThrows(c) == c.kind = "notjson"

\* Destructuring null throws; destructuring any other non-object value reads
\* every field as undefined.
destructureThrows(c) == c.kind = "null"

destructured(c) ==
    IF c.kind = "object" THEN c
    ELSE [kind |-> c.kind,
          name |-> Undefined, address |-> Undefined, date |-> Undefined,
          startingBalance |-> Undefined, endingBalance |-> Undefined,
          currency |-> Undefined,
          transactions |-> [t |-> "undefined", items |-> <<>>]]

\* The try block's return value, current version.
ledger(p) ==
    LET txs == normalizeAll(p.transactions, p.currency, "current")
    IN  [error |-> Undefined,
         name |-> p.name, address |-> p.address, date |-> p.date,
         startingBalance |-> p.startingBalance,
         endingBalance |-> p.endingBalance,
         transactions |-> txs,
         reconciles |-> reconcile(p.startingBalance, p.endingBalance, txs),
         currency |-> OrElse(p.currency,
                             Coalesce(IF txs = <<>> THEN Undefined
                                      ELSE txs[1].currency,
                                      Str(DefaultCurrency)))]

\* The try block's return value, earlier version.
ledgerEarlier(p) ==
    LET txs == normalizeAll(p.transactions, Undefined, "earlier")
    IN  [error |-> Undefined,
         name |-> Coalesce(p.name, Null),
         address |-> Coalesce(p.address, Null),
         date |-> Coalesce(p.date, Null),
         startingBalance |-> IF typeof(p.startingBalance) = "number"
                             THEN p.startingBalance ELSE Null,
         endingBalance |-> IF typeof(p.endingBalance) = "number"
                           THEN p.endingBalance ELSE Null,
         transactions |-> txs,
         reconciles |-> reconcile(p.startingBalance, p.endingBalance, txs),
         currency |-> Undefined]

\* Whether the try block throws: an empty response, text that is not JSON, a
\* top-level null, or an array element whose property cannot be read.
tryThrows(c) ==
    \/ c.kind = "empty"
    \/ parseThrows(c)
    \/ destructureThrows(c)
    \/ normalizeThrows(destructured(c).transactions)

extractStatementDetails(c) ==
    IF tryThrows(c) THEN errorResult ELSE ledger(destructured(c))

extractStatementDetailsEarlier(c) ==
    IF tryThrows(c) THEN errorResult ELSE ledgerEarlier(destructured(c))

\* ------------------------------------------------------------ inputs
NoArray == [t |-> "undefined", items |-> <<>>]
NotAnArray == [t |-> "string", items |-> <<>>]
Array(items) == [t |-> "array", items |-> items]

Entry(d, x, i, o, c) ==
    [k |-> "object", date |-> d, description |-> x,
     moneyIn |-> i, moneyOut |-> o, currency |-> c]

\* An array element that is no object: null, or a number.
NonObject(k) ==
    [k |-> k, date |-> Undefined, description |-> Undefined,
     moneyIn |-> Undefined, moneyOut |-> Undefined, currency |-> Undefined]

DateVals == {Str(<<" ", "d", " ">>), Str(<<>>), Num(1)}
DescVals == {Str(<<"x">>), Str(<<" ">>), Null}
MoneyVals == {Str(<<"5">>), Num(-5), Num(0), Num(5)}

\* A credit of 0.005 and a debit of 0.005.
CreditEntry == Entry(Str(<<"d">>), Str(<<"x">>), Num(5), Null, Undefined)
DebitEntry == Entry(Str(<<"d">>), Str(<<"x">>), Num(0), Num(5), Undefined)

CurrencyVals == {Undefined, Str(<<"E">>), Str(<<>>), Num(0)}

\* Well-typed date and description, every pair of moneyIn and moneyOut.
MoneyEntries ==
    {Entry(Str(<<"d">>), Str(<<"x">>), i, o, Undefined) :
        i \in MoneyVals, o \in MoneyVals}

\* Entries the normalizer keeps, of amounts 0.005, -0.005, 0 and 0.
KeptEntries ==
    {CreditEntry, DebitEntry,
     Entry(Str(<<"d">>), Str(<<"x">>), Null, Null, Undefined),
     Entry(Str(<<"d">>), Str(<<"x">>), Str(<<"5">>), Num(0), Undefined)}

RawEntries ==
    {NonObject("null"), NonObject("number")}
    \cup {Entry(d, x, Num(5), Null, Undefined) : d \in DateVals, x \in DescVals}
    \cup MoneyEntries
    \cup {Entry(Str(<<"d">>), Str(<<"x">>), Null, Num(5), c) : c \in CurrencyVals}

SeqsUpTo(S, k) == UNION {[1..m -> S] : m \in 0..k}

TextVals == {Undefined, Null, Str(<<"n">>), Num(7)}
HeaderBalanceVals == {Undefined, Null, Str(<<"1">>), Num(1)}
StartVals == {Null, Str(<<"1">>), Num(-1), Num(1)}
EndVals == {Undefined, Num(4), Num(6), Num(-10)}
StatementCurrencyVals == {Undefined, Str(<<"G">>), Num(3)}

Response(kind, nm, ad, dt, sb, eb, cur, txs) ==
    [kind |-> kind, name |-> nm, address |-> ad, date |-> dt,
     startingBalance |-> sb, endingBalance |-> eb, currency |-> cur,
     transactions |-> txs]

\* ------------------------------------------- StatementAnalysis: view
UpperCase ==
    <<"A", "B", "C", "D", "E", "F", "G", "H", "I", "J", "K", "L", "M",
      "N", "O", "P", "Q", "R", "S", "T", "U", "V", "W", "X", "Y", "Z">>

LowerCase ==
    <<"a", "b", "c", "d", "e", "f", "g", "h", "i", "j", "k", "l", "m",
      "n", "o", "p", "q", "r", "s", "t", "u", "v", "w", "x", "y", "z">>

\* The lower-case letter of every upper-case letter.
lowerOf ==
    [c \in {UpperCase[i] : i \in 1..Len(UpperCase)} |->
        LowerCase[CHOOSE i \in 1..Len(UpperCase) : UpperCase[i] = c]]

lowerChar(c) == IF c \in DOMAIN lowerOf THEN lowerOf[c] ELSE c

toLowerCase_identity(s) == s

\* String.prototype.toLowerCase
toLowerCase(s) == [i \in 1..Len(s) |-> lowerChar(s[i])]

\* String.prototype.includes
includes(s, term) ==
    \E i \in 0..(Len(s) - Len(term)) : SubSeq(s, i + 1, i + Len(term)) = term

\* The predicate of transactions.filter.
matches(tx, term) ==
    \/ includes(toLowerCase(tx.date), term)
    \/ includes(toLowerCase(tx.desc), term)
    \/ includes(toFixed2(tx.amount), term)

\* The filteredTransactions memo.
filteredTransactions(txs, searchTerm) ==
    LET term == toLowerCase(trim(searchTerm))
        Keep(tx) == matches(tx, term)
    IN  IF term = <<>> THEN txs ELSE SelectSeq(txs, Keep)

Min(a, b) == IF a < b THEN a ELSE b
Max(a, b) == IF a > b THEN a ELSE b

\* Math.ceil(n / size) for n >= 0 and size > 0.
ceilDiv(n, size) == (n + size - 1) \div size

pageCountOf_floor(n, size) == IF n \div size = 0 THEN 1 ELSE n \div size

\* Math.ceil(filteredTransactions.length / pageSize) || 1
pageCountOf(n, size) == IF ceilDiv(n, size) = 0 THEN 1 ELSE ceilDiv(n, size)

\* Array.prototype.slice(from, to) for 0 <= from.
slice(xs, from, to) == SubSeq(xs, Min(from, Len(xs)) + 1, Min(to, Len(xs)))

\* The paginatedTransactions memo.
paginatedTransactions(filtered, p, size) ==
    slice(filtered, (p - 1) * size, p * size)

\* One run of the component function: what it computes from its state.
render(txs, s, p, size) ==
    LET filtered == filteredTransactions(txs, s)
    IN  [search |-> s, page |-> p, pageSize |-> size,
         filtered |-> filtered,
         pageCount |-> pageCountOf(Len(filtered), size),
         paginated |-> paginatedTransactions(filtered, p, size)]

\* The options of the page size select.
PageSizes == {5, 10, 15, 25, 50}

\* The page the effect on [search, pageSize] sets.
resetPage_keep(p) == p

resetPage(p) == 1

\* ------------------------------------------------------ view inputs
CoffeeShop ==
    [date |-> <<"0", "1", "-", "0", "1", "-", "2", "0", "2", "4">>,
     desc |-> <<"C", "o", "f", "f", "e", "e", " ", "S", "h", "o", "p">>,
     amount |-> -3500]

Salary ==
    [date |-> <<"0", "2", "-", "0", "1", "-", "2", "0", "2", "4">>,
     desc |-> <<"S", "a", "l", "a", "r", "y">>,
     amount |-> 2000000]

Atm ==
    [date |-> <<"0", "3", "-", "0", "1", "-", "2", "0", "2", "4">>,
     desc |-> <<"A", "T", "M">>,
     amount |-> -5]

TxPool == <<CoffeeShop, Salary, Atm>>

\* The ledgers shown: the pool repeated up to a length.
LedgerOf(k) == [i \in 1..k |-> TxPool[((i - 1) % Len(TxPool)) + 1]]

TermChars == {" ", "o", "O"}

FixedTerms ==
    {<<"z", "z", "z">>,
     <<"3", ".", "5", "0">>,
     <<"-", "3", ".", "5", "0">>,
     <<"0", ".", "0", "1">>,
     <<" ", "S", "A", "L", " ">>,
     <<"c", "o", "f", "f", "e", "e">>,
     <<"2", "0", "2", "4">>}

SearchTerms == SeqsUpTo(TermChars, MaxTermLen) \cup FixedTerms

\* ------------------------------------------------------- the route
\* A value a rejected await throws: an Error with its message, a value that
\* is no Error, or null.
Thrown(k, message) == [k |-> k, message |-> message]
NoThrow == Thrown("none", <<>>)
ThrownVals ==
    {Thrown("Error", <<"b", "o", "o", "m">>), Thrown("Error", <<>>),
     Thrown("string", <<>>), Thrown("null", <<>>)}

\* formData.get("file"): null, a string, or a File (a Blob).
FormFiles == {"null", "string", "blob"}

\* pdfData.text
PdfTexts == {Undefined, Str(<<>>), Str(<<" ">>), Str(<<" ", "t">>)}

NoFileUploaded == <<"No file uploaded">>
CouldNotExtractText == <<"Could not extract text from PDF">>
UnexpectedError == <<"Unexpected error">>

\* NextResponse.json(body, { status })
HttpResponse(status, body) == [status |-> status, body |-> body]
NoHttpResponse == HttpResponse(0, [pending |-> TRUE])
errorBody(message) == [error |-> Str(message)]

\* file instanceof Blob (current); !(!file || typeof file === "string")
\* (earlier).
acceptsFile(r, f) ==
    IF r = "current" THEN f = "blob" ELSE ~(f = "null" \/ f = "string")

\* !text || text.trim() === ""
rejectsText(t) == ~Truthy(t) \/ trim(t.s) = <<>>

\* The catch block of the earlier POST: err.message of null throws again.
postCatchEarlier(err) ==
    IF err.k = "null"
    THEN [escaped |-> TRUE, response |-> NoHttpResponse]
    ELSE [escaped |-> FALSE,
          response |->
              HttpResponse(500,
                  errorBody(IF err.k = "Error" /\ err.message # <<>>
                            THEN err.message ELSE UnexpectedError))]

postCatch_unguarded(err) == postCatchEarlier(err)

\* The catch block of the current POST.
postCatch(err) ==
    [escaped |-> FALSE,
     response |->
         HttpResponse(500,
             errorBody(IF err.k = "Error" THEN err.message
                       ELSE UnexpectedError))]

\* --------------------------------------------------- the assembler
NoResponse ==
    Response("none", Undefined, Undefined, Undefined, Undefined, Undefined,
             Undefined, NoArray)

Init ==
    /\ content = NoResponse
    /\ version = "none"
    /\ result = errorResult
    /\ transactions = <<>>
    /\ search = <<>>
    /\ page = 1
    /\ pageSize = 10
    /\ effectPending = FALSE
    /\ view = render(<<>>, <<>>, 1, 10)
    /\ route = "none"
    /\ stage = "idle"
    /\ file = "unread"
    /\ text = Undefined
    /\ thrown = NoThrow
    /\ calls = <<>>
    /\ response = NoHttpResponse

\* The transcription service answers with a response that is no JSON object.
RespondNonObject ==
    /\ content = NoResponse
    /\ \E k \in {"empty", "notjson", "null", "number", "string", "array"} :
          content' = Response(k, Undefined, Undefined, Undefined, Undefined,
                              Undefined, Undefined, NoArray)
    /\ UNCHANGED <<version, result>>
    /\ UNCHANGED viewVars

\* It answers with an object: every combination of header values, over a few
\* transactions fields.
RespondHeaders ==
    /\ content = NoResponse
    /\ \E nm \in TextVals, ad \in {Null, Str(<<"n">>)},
          dt \in {Str(<<"n">>), Num(7)},
          sb \in HeaderBalanceVals, eb \in HeaderBalanceVals,
          cur \in StatementCurrencyVals,
          txs \in {NoArray, NotAnArray, Array(<<CreditEntry>>)} :
          content' = Response("object", nm, ad, dt, sb, eb, cur, txs)
    /\ UNCHANGED <<version, result>>
    /\ UNCHANGED viewVars

\* It answers with an object: every pair of balances over every array of
\* entries that are kept.
RespondBalances ==
    /\ content = NoResponse
    /\ \E sb \in StartVals, eb \in EndVals,
          items \in SeqsUpTo(KeptEntries, MaxEntries) :
          content' = Response("object", Null, Null, Null, sb, eb, Undefined,
                              Array(items))
    /\ UNCHANGED <<version, result>>
    /\ UNCHANGED viewVars

\* It answers with an object: every array of raw entries, under every
\* statement currency.
RespondEntries ==
    /\ content = NoResponse
    /\ \E cur \in StatementCurrencyVals,
          items \in SeqsUpTo(RawEntries, MaxEntries) :
          content' = Response("object", Null, Null, Null, Null, Null, cur,
                              Array(items))
    /\ UNCHANGED <<version, result>>
    /\ UNCHANGED viewVars

\* The current extractStatementDetails from the response on.  A request is
\* handled once: nothing is kept between requests.
Extract ==
    /\ content # NoResponse
    /\ version = "none"
    /\ version' = "current"
    /\ result' = extractStatementDetails(content)
    /\ UNCHANGED content
    /\ UNCHANGED viewVars

\* The earlier extractStatementDetails from the response on.
ExtractEarlier ==
    /\ content # NoResponse
    /\ version = "none"
    /\ version' = "earlier"
    /\ result' = extractStatementDetailsEarlier(content)
    /\ UNCHANGED content
    /\ UNCHANGED viewVars

Next ==
    \/ RespondNonObject /\ UNCHANGED postVars
    \/ RespondHeaders /\ UNCHANGED postVars
    \/ RespondBalances /\ UNCHANGED postVars
    \/ RespondEntries /\ UNCHANGED postVars
    \/ Extract /\ UNCHANGED postVars
    \/ ExtractEarlier /\ UNCHANGED postVars

Spec == Init /\ [][Next]_vars

\* ------------------------------------------------------ route steps
\* One upload request, handled by the current or by the earlier POST.
InitPost ==
    /\ content = NoResponse
    /\ version = "none"
    /\ result = errorResult
    /\ transactions = <<>>
    /\ search = <<>>
    /\ page = 1
    /\ pageSize = 10
    /\ effectPending = FALSE
    /\ view = render(<<>>, <<>>, 1, 10)
    /\ route \in {"current", "earlier"}
    /\ stage = "start"
    /\ file = "unread"
    /\ text = Undefined
    /\ thrown = NoThrow
    /\ calls = <<>>
    /\ response = NoHttpResponse

\* An await of the try block rejects with err: the catch block answers, or
\* throws itself.
Caught(err) ==
    LET outcome == IF route = "current" THEN postCatch(err)
                   ELSE postCatchEarlier(err)
    IN  /\ thrown' = err
        /\ stage' = IF outcome.escaped THEN "escaped" ELSE "done"
        /\ response' = outcome.response

\* await req.formData() rejects.
FormFails ==
    /\ stage = "start"
    /\ \E err \in ThrownVals : Caught(err)
    /\ UNCHANGED <<route, file, text, calls>>
    /\ UNCHANGED <<content, version, result>>
    /\ UNCHANGED viewVars

\* The form is read: without a file the request is answered at once, with
\* one the text extraction is started.
ReadForm ==
    /\ stage = "start"
    /\ \E f \in FormFiles :
          /\ file' = f
          /\ IF acceptsFile(route, f)
             THEN /\ stage' = "extracting"
                  /\ calls' = Append(calls, "pdfParse")
                  /\ UNCHANGED response
             ELSE /\ stage' = "done"
                  /\ response' = HttpResponse(400, errorBody(NoFileUploaded))
                  /\ UNCHANGED calls
    /\ UNCHANGED <<route, text, thrown>>
    /\ UNCHANGED <<content, version, result>>
    /\ UNCHANGED viewVars

\* file.arrayBuffer() or pdfParse rejects.
ExtractionFails ==
    /\ stage = "extracting"
    /\ \E err \in ThrownVals : Caught(err)
    /\ UNCHANGED <<route, file, text, calls>>
    /\ UNCHANGED <<content, version, result>>
    /\ UNCHANGED viewVars

\* pdfParse resolves: without text the request is answered, with text
\* extractStatementDetails calls the transcription service.
ExtractText ==
    /\ stage = "extracting"
    /\ \E t \in PdfTexts :
          /\ text' = t
          /\ IF rejectsText(t)
             THEN /\ stage' = "done"
                  /\ response' = HttpResponse(500, errorBody(CouldNotExtractText))
                  /\ UNCHANGED calls
             ELSE /\ stage' = "transcribing"
                  /\ calls' = Append(calls, "openai")
                  /\ UNCHANGED response
    /\ UNCHANGED <<route, file, thrown>>
    /\ UNCHANGED <<content, version, result>>
    /\ UNCHANGED viewVars

\* The transcription call rejects: the catch block of
\* extractStatementDetails returns the placeholder, which is the response.
TranscriptionFails ==
    /\ stage = "transcribing"
    /\ \E err \in ThrownVals : thrown' = err
    /\ version' = route
    /\ result' = errorResult
    /\ response' = HttpResponse(200, errorResult)
    /\ stage' = "done"
    /\ UNCHANGED <<route, file, text, calls, content>>
    /\ UNCHANGED viewVars

\* The transcription service answers.
Transcribed ==
    /\ stage = "transcribing"
    /\ \/ RespondNonObject
       \/ RespondHeaders
       \/ RespondBalances
       \/ RespondEntries
    /\ stage' = "assembling"
    /\ UNCHANGED <<route, file, text, thrown, calls, response>>

\* extractStatementDetails returns and its result is the response.
Respond ==
    /\ stage = "assembling"
    /\ \/ route = "current" /\ Extract
       \/ route = "earlier" /\ ExtractEarlier
    /\ response' = HttpResponse(200, result')
    /\ stage' = "done"
    /\ UNCHANGED <<route, file, text, thrown, calls>>

NextPost ==
    \/ FormFails
    \/ ReadForm
    \/ ExtractionFails
    \/ ExtractText
    \/ TranscriptionFails
    \/ Transcribed
    \/ Respond

SpecPost == InitPost /\ [][NextPost]_vars

\* ------------------------------------------------------- view steps
\* The component is mounted on a ledger: the first render is committed and
\* the effect of the first render is due.
InitView ==
    /\ content = NoResponse
    /\ version = "none"
    /\ result = errorResult
    /\ \E k \in 0..MaxTx : transactions = LedgerOf(k)
    /\ search = <<>>
    /\ page = 1
    /\ pageSize = 10
    /\ effectPending = TRUE
    /\ view = render(transactions, <<>>, 1, 10)
    /\ route = "none"
    /\ stage = "idle"
    /\ file = "unread"
    /\ text = Undefined
    /\ thrown = NoThrow
    /\ calls = <<>>
    /\ response = NoHttpResponse

\* onChange of the search input.  React runs the effects of a committed
\* render before it handles the next event, so no handler runs while the
\* effect is due.
SetSearch ==
    /\ ~effectPending
    /\ \E v \in SearchTerms :
          /\ v # search
          /\ search' = v
          /\ view' = render(transactions, v, page, pageSize)
    /\ effectPending' = TRUE
    /\ UNCHANGED <<transactions, page, pageSize>>
    /\ UNCHANGED serverVars

\* onChange of the page size select.
SetPageSize ==
    /\ ~effectPending
    /\ \E size \in PageSizes :
          /\ size # pageSize
          /\ pageSize' = size
          /\ view' = render(transactions, search, page, size)
    /\ effectPending' = TRUE
    /\ UNCHANGED <<transactions, search, page>>
    /\ UNCHANGED serverVars

\* The effect on [search, pageSize], and the render its setPage causes.
RunEffect ==
    /\ effectPending
    /\ page' = resetPage(page)
    /\ effectPending' = FALSE
    /\ view' = render(transactions, search, page', pageSize)
    /\ UNCHANGED <<transactions, search, pageSize>>
    /\ UNCHANGED serverVars

\* The pagination controls are rendered only over a non-empty filtered list.
ControlsShown == ~effectPending /\ view.filtered # <<>>

\* The previous button: setPage(p => Math.max(1, p - 1)), disabled on page 1.
PreviousPage ==
    /\ ControlsShown
    /\ page # 1
    /\ page' = Max(1, page - 1)
    /\ view' = render(transactions, search, page', pageSize)
    /\ UNCHANGED <<transactions, search, pageSize, effectPending>>
    /\ UNCHANGED serverVars

\* The next button: setPage(p => Math.min(pageCount, p + 1)), disabled on
\* the last page.
NextPage ==
    /\ ControlsShown
    /\ page # view.pageCount
    /\ page' = Min(view.pageCount, page + 1)
    /\ view' = render(transactions, search, page', pageSize)
    /\ UNCHANGED <<transactions, search, pageSize, effectPending>>
    /\ UNCHANGED serverVars

\* A page button: the buttons shown are pages page-2 .. page+2 within
\* 1 .. pageCount.
GoToPage ==
    /\ ControlsShown
    /\ \E pn \in Max(1, page - 2)..Min(view.pageCount, page + 2) :
          /\ page' = pn
          /\ view' = render(transactions, search, pn, pageSize)
    /\ UNCHANGED <<transactions, search, pageSize, effectPending>>
    /\ UNCHANGED serverVars

NextView ==
    \/ SetSearch
    \/ SetPageSize
    \/ RunEffect
    \/ PreviousPage
    \/ NextPage
    \/ GoToPage

SpecView == InitView /\ [][NextView]_vars

\* ------------------------------------------------------------ claims
Handled == version # "none"
Succeeded == Handled /\ result.error = Undefined
RawItems == content.transactions.items
HasArray == content.kind = "object" /\ content.transactions.t = "array"

\* The three checks of an entry, as the specification states them.
ResolvedIn(tx) == IF tx.moneyIn.t = "number" THEN tx.moneyIn.n ELSE 0
ResolvedOut(tx) == IF tx.moneyOut.t = "number" THEN tx.moneyOut.n ELSE 0
PassesChecks(tx) ==
    /\ tx.date.t = "string" /\ tx.description.t = "string"
    /\ ~(ResolvedIn(tx) > 0 /\ ResolvedOut(tx) > 0)
    /\ ResolvedIn(tx) >= 0 /\ ResolvedOut(tx) >= 0

\* The Transaction an entry that passes is emitted as.
EmittedFor(tx) ==
    IF version = "current" THEN normalizeEntry(tx, content.currency)[1]
    ELSE normalizeEntryEarlier(tx)[1]

PassingEntries == SelectSeq(RawItems, PassesChecks)

KeptExactlyThePassing ==
    /\ Len(result.transactions) = Len(PassingEntries)
    /\ \A k \in 1..Len(PassingEntries) :
          result.transactions[k] = EmittedFor(PassingEntries[k])

\* C1: for every array of raw entries the emitted transactions are exactly
\* the entries that pass the three checks, in source order: none that fails
\* is emitted, none that passes is dropped or moved.
C1_OutputIsThePassingSubsequence ==
    (Handled /\ HasArray) => KeptExactlyThePassing

\* What the code does keep of C1 and C4: an array without a null element is
\* normalized to exactly its passing entries, without an error marker.
ReadableArrayIsNormalized ==
    (Handled /\ HasArray /\ \A i \in 1..Len(RawItems) : RawItems[i].k # "null")
        => result.error = Undefined /\ KeptExactlyThePassing

\* C2: every kept entry's amount is moneyIn when the resolved moneyIn is
\* positive and minus moneyOut otherwise, a non-numeric moneyIn or moneyOut
\* counting as 0.
C2_AmountIsSignedMoney ==
    (Succeeded /\ HasArray) =>
        /\ Len(result.transactions) = Len(PassingEntries)
        /\ \A k \in 1..Len(PassingEntries) :
              result.transactions[k].amount =
                  IF ResolvedIn(PassingEntries[k]) > 0
                  THEN ResolvedIn(PassingEntries[k])
                  ELSE 0 - ResolvedOut(PassingEntries[k])

\* A credit of X gives X, a debit of Y gives -Y and a non-numeric moneyIn
\* with a zero moneyOut gives 0.
C2_Witness ==
    /\ Succeeded /\ HasArray
    /\ \E i, j \in 1..Len(RawItems) :
          /\ i < j
          /\ PassesChecks(RawItems[i]) /\ PassesChecks(RawItems[j])
          /\ ResolvedIn(RawItems[i]) > 0
          /\ ResolvedOut(RawItems[j]) > 0
    /\ \E i, j \in 1..Len(result.transactions) :
          result.transactions[i].amount > 0 /\ result.transactions[j].amount < 0

\* Hundredths nearest to x thousandths, a tie going away from zero.
RoundedHundredths(x) ==
    IF x < 0 THEN 0 - ((5 - x) \div 10) ELSE (x + 5) \div 10

RECURSIVE AmountSum(_)
AmountSum(txs) ==
    IF txs = <<>> THEN 0 ELSE Head(txs).amount + AmountSum(Tail(txs))

BothBalancesNumbers ==
    content.startingBalance.t = "number" /\ content.endingBalance.t = "number"

\* C3: the verdict is null exactly when a balance is not a number; with two
\* numbers it is true exactly when the starting balance plus the sum of the
\* kept amounts and the ending balance agree after rounding to 2 decimals.
C3_ReconciliationVerdict ==
    Succeeded =>
        /\ result.reconciles = "null" <=> ~BothBalancesNumbers
        /\ BothBalancesNumbers =>
              /\ result.reconciles \in {"true", "false"}
              /\ result.reconciles = "true" <=>
                    RoundedHundredths(content.startingBalance.n
                                      + AmountSum(result.transactions))
                    = RoundedHundredths(content.endingBalance.n)

\* Balances that differ before rounding and reconcile after it, over a
\* ledger with transactions.
C3_Witness ==
    /\ Succeeded /\ BothBalancesNumbers
    /\ result.transactions # <<>>
    /\ AmountSum(result.transactions) # 0
    /\ result.reconciles = "true"
    /\ content.startingBalance.n + AmountSum(result.transactions)
          # content.endingBalance.n

\* C4: no element of the raw transactions array, whatever its shape, makes
\* the assembly fail: the Ledger carries no error marker, the bad entries
\* are dropped and the well-formed ones kept.
C4_NoEntryFailsTheAssembly ==
    (Handled /\ HasArray) =>
        /\ result.error = Undefined
        /\ Len(result.transactions) = Len(PassingEntries)

\* C5: a response that is empty, is not JSON or is no object gives the
\* error string with every other field null or empty.
C5_UnusableResponseGivesErrorLedger ==
    (Handled /\ content.kind \in {"empty", "notjson", "null", "number", "string"})
        => /\ result.error.t = "string"
           /\ result.name = Null /\ result.address = Null /\ result.date = Null
           /\ result.startingBalance = Null /\ result.endingBalance = Null
           /\ result.transactions = <<>>
           /\ result.reconciles = "null"

\* C6: in a Ledger without error, name, address and date are a string or
\* null and the two balances are a number or null: a raw header value of
\* another type is never passed through.
HeadersPresent ==
    /\ content.kind = "object"
    /\ \A f \in {"name", "address", "date", "startingBalance", "endingBalance"} :
          content[f] # Undefined

C6_HeaderFieldsTypedOrNull ==
    (Succeeded /\ HeadersPresent) =>
        /\ result.name.t \in {"string", "null"}
        /\ result.address.t \in {"string", "null"}
        /\ result.date.t \in {"string", "null"}
        /\ result.startingBalance.t \in {"number", "null"}
        /\ result.endingBalance.t \in {"number", "null"}


\* --------------------------------------------------- claims: the view
RECURSIVE IsPrefix(_, _)
IsPrefix(t, s) ==
    \/ t = <<>>
    \/ /\ s # <<>>
       /\ Head(t) = Head(s)
       /\ IsPrefix(Tail(t), Tail(s))

RECURSIVE Contains(_, _)
Contains(s, t) == IsPrefix(t, s) \/ (s # <<>> /\ Contains(Tail(s), t))

FoldCase(s) == [i \in 1..Len(s) |-> lowerChar(s[i])]

\* The amount with exactly 2 decimals: sign, whole part, point, hundredths.
TwoDecimals(x) ==
    LET h == IF x < 0 THEN (5 - x) \div 10 ELSE (x + 5) \div 10
    IN  (IF x < 0 THEN <<"-">> ELSE <<>>)
        \o DecimalDigits(h \div 100) \o <<".">>
        \o <<Digit((h % 100) \div 10), Digit(h % 10)>>

\* A transaction contains the term in its date, description or amount,
\* letters compared without case.
ContainsTerm(tx, t) ==
    \/ Contains(FoldCase(tx.date), FoldCase(t))
    \/ Contains(FoldCase(tx.desc), FoldCase(t))
    \/ Contains(FoldCase(TwoDecimals(tx.amount)), FoldCase(t))

RECURSIVE Subsequence(_, _)
Subsequence(txs, t) ==
    IF txs = <<>> THEN <<>>
    ELSE (IF ContainsTerm(Head(txs), t) THEN <<Head(txs)>> ELSE <<>>)
         \o Subsequence(Tail(txs), t)

RECURSIVE Strip(_)
Strip(s) ==
    IF s = <<>> THEN s
    ELSE IF Head(s) = " " THEN Strip(Tail(s))
    ELSE IF s[Len(s)] = " " THEN Strip(SubSeq(s, 1, Len(s) - 1))
    ELSE s

\* C7 as stated: the filtered view is the subsequence of the transactions
\* that contain the search term itself, and the whole list for the empty
\* term.
C7_FilterByTermAsTyped ==
    view.filtered = IF view.search = <<>> THEN transactions
                    ELSE Subsequence(transactions, view.search)

\* C7 as amended: the filtered view is the subsequence, in original order, of
\* the transactions whose date, description or 2-decimal amount contains the
\* search term stripped of surrounding whitespace, without regard to case;
\* a term that is empty once stripped gives the whole list.
C7_FilterByStrippedTerm ==
    view.filtered = IF Strip(view.search) = <<>> THEN transactions
                    ELSE Subsequence(transactions, Strip(view.search))

\* An upper-case, space-padded term that selects some transactions and not
\* others.
C7_Witness ==
    /\ view.search = <<" ", "S", "A", "L", " ">>
    /\ view.filtered # <<>>
    /\ Len(view.filtered) < Len(transactions)

RECURSIVE ConcatPages(_, _, _)
ConcatPages(xs, p, size) ==
    IF p = 0 THEN <<>>
    ELSE ConcatPages(xs, p - 1, size) \o paginatedTransactions(xs, p, size)

\* The elements of xs at the 0-based indices from .. to-1.
Elements(xs, from, to) == [i \in 1..(to - from) |-> xs[from + i]]

\* ceil(n / size), and 1 when n = 0.
CeilOrOne(n, size) ==
    IF n = 0 THEN 1
    ELSE CHOOSE q \in 1..n : (q - 1) * size < n /\ n <= q * size

PagesPartition(xs, size) ==
    LET n == Len(xs)
        pc == CeilOrOne(n, size)
    IN  /\ pageCountOf(n, size) = pc
        /\ \A p \in 1..pc :
              paginatedTransactions(xs, p, size)
                  = Elements(xs, (p - 1) * size, Min(p * size, n))
        /\ ConcatPages(xs, pc, size) = xs

\* C8: for the filtered sequence, every positive page size and every page in
\* 1..pageCount: pageCount is ceil(n / pageSize), 1 when n = 0, the page is
\* the elements (page-1)*pageSize .. min(page*pageSize, n)-1, and the pages
\* in order concatenate to the filtered sequence.
C8_PagesPartitionTheFiltered ==
    /\ \A size \in 1..(MaxTx + 1) \cup PageSizes :
          PagesPartition(view.filtered, size)
    /\ view.pageCount = CeilOrOne(Len(view.filtered), view.pageSize)
    /\ view.page \in 1..view.pageCount =>
          view.paginated
              = Elements(view.filtered, (view.page - 1) * view.pageSize,
                         Min(view.page * view.pageSize, Len(view.filtered)))

\* 12 entries with page size 10: 2 pages, and page 2 holds the last 2.
C8_Witness ==
    /\ Len(view.filtered) = 12
    /\ view.pageSize = 10
    /\ view.pageCount = 2
    /\ view.page = 2
    /\ view.paginated = SubSeq(view.filtered, 11, 12)

\* C9: a change of the search term or of the page size makes the reset due,
\* the step after it sets the page to 1 and is no user interaction, and a
\* step that changes the page leaves the search term and page size alone.
C9_ChangeResetsPage ==
    [][/\ (search' # search \/ pageSize' # pageSize) => effectPending'
       /\ effectPending =>
             /\ page' = 1
             /\ ~effectPending'
             /\ search' = search /\ pageSize' = pageSize
       /\ page' # page => (search' = search /\ pageSize' = pageSize)]_vars

\* The search term was changed on page 3 and the reset is due.
C9_Witness ==
    /\ effectPending
    /\ page = 3
    /\ search # <<>>

\* C10: every view is computed with a page within 1..pageCount of the
\* sequence filtered by the current search term and page size.
C10_ViewPageInRange ==
    /\ view.search = search /\ view.pageSize = pageSize
    /\ view.page >= 1
    /\ view.page <= view.pageCount

\* What the code does keep of C10: once the reset has run, the view on
\* screen is computed with a page in range.
SettledViewPageInRange ==
    ~effectPending =>
        /\ view = render(transactions, search, page, pageSize)
        /\ page \in 1..view.pageCount

\* ------------------------------------- claims: currency and canon
SucceededCurrent == Succeeded /\ version = "current"

NonEmptyString(v) == v.t = "string" /\ v.s # <<>>

Given(v) == v.t \notin {"undefined", "null"}

\* C12: the statement-level currency of a Ledger without error is the
\* statement currency when one is given, else the currency of the first kept
\* transaction, else "$", and it is always a non-empty string.
C12_LedgerCurrencyFallback ==
    SucceededCurrent =>
        /\ result.currency =
              IF Given(content.currency) THEN content.currency
              ELSE IF result.transactions # <<>>
                   THEN result.transactions[1].currency
                   ELSE Str(<<"$">>)
        /\ NonEmptyString(result.currency)

\* What the code does keep of C12: under a statement currency that is absent
\* or a non-empty string, and entry currencies that are absent or non-empty
\* strings, the fallback chain gives a non-empty string.
WellFormedCurrenciesFallBack ==
    (SucceededCurrent /\ HasArray
     /\ (Given(content.currency) => NonEmptyString(content.currency))
     /\ \A i \in 1..Len(RawItems) :
           Given(RawItems[i].currency) => NonEmptyString(RawItems[i].currency))
        => /\ NonEmptyString(result.currency)
           /\ result.currency =
                 IF Given(content.currency) THEN content.currency
                 ELSE IF result.transactions # <<>>
                      THEN result.transactions[1].currency
                      ELSE Str(<<"$">>)

Trimmed(s) == s = <<>> \/ (Head(s) # " " /\ s[Len(s)] # " ")

\* C13: every Transaction of a returned Ledger has a non-empty date and a
\* non-empty description without surrounding whitespace, and a non-empty
\* string currency: the entry's when that is a string, else the statement's,
\* else "$".
C13_TransactionsAreCanonical ==
    (SucceededCurrent /\ HasArray) =>
        /\ Len(result.transactions) = Len(PassingEntries)
        /\ \A k \in 1..Len(result.transactions) :
              LET t == result.transactions[k]
                  raw == PassingEntries[k]
              IN  /\ t.date # <<>> /\ Trimmed(t.date)
                  /\ t.desc # <<>> /\ Trimmed(t.desc)
                  /\ Strip(raw.description.s) = <<>> => t.desc = NoDescription
                  /\ NonEmptyString(t.currency)
                  /\ t.currency =
                        IF raw.currency.t = "string" THEN raw.currency
                        ELSE IF Given(content.currency) THEN content.currency
                        ELSE Str(<<"$">>)

\* What the code does keep of C13: dates and descriptions are trimmed and the
\* description is never empty.
TrimmedAndDescribed ==
    (Succeeded /\ HasArray) =>
        \A k \in 1..Len(result.transactions) :
            /\ Trimmed(result.transactions[k].date)
            /\ Trimmed(result.transactions[k].desc)
            /\ result.transactions[k].desc # <<>>

\* A Transaction written back as a well-typed, unambiguous raw entry.
AsRawEntry(t) ==
    [k |-> "object",
     date |-> Str(t.date),
     description |-> Str(t.desc),
     moneyIn |-> IF t.amount > 0 THEN Num(t.amount) ELSE Null,
     moneyOut |-> IF t.amount < 0 THEN Num(0 - t.amount) ELSE Null,
     currency |-> t.currency]

AsRawEntries(txs) == [i \in 1..Len(txs) |-> AsRawEntry(txs[i])]

\* C14: the Normalizer's output, written back as raw entries and normalized
\* again under the same statement currency, is the identical sequence.
C14_NormalizationIsIdempotent ==
    (Succeeded /\ HasArray) =>
        flatMapEntries(AsRawEntries(result.transactions), content.currency,
                       version)
            = result.transactions

\* A ledger with a credit and a debit, from raw entries whose date had
\* surrounding whitespace or whose description was blank.
C14_Witness ==
    /\ Succeeded /\ HasArray
    /\ Len(result.transactions) = 2
    /\ \E i, j \in 1..2 :
          /\ result.transactions[i].amount > 0
          /\ result.transactions[j].amount < 0
    /\ \E i \in 1..Len(RawItems) :
          /\ PassesChecks(RawItems[i])
          /\ \/ RawItems[i].date.s # Strip(RawItems[i].date.s)
             \/ Strip(RawItems[i].description.s) = <<>>

\* ------------------------------------------------ claims: the route
Answered == stage = "done"

Invoked(service) == \E i \in 1..Len(calls) : calls[i] = service

HasErrorString(body) == "error" \in DOMAIN body /\ body.error.t = "string"

\* The body has every Ledger field, all at their placeholder values.
PlaceholderLedger(body) ==
    /\ {"name", "address", "date", "startingBalance", "endingBalance",
        "transactions", "reconciles"} \subseteq DOMAIN body
    /\ body.name = Null
    /\ body.address = Null
    /\ body.date = Null
    /\ body.startingBalance = Null
    /\ body.endingBalance = Null
    /\ body.transactions = <<>>
    /\ body.reconciles = errorResult.reconciles

\* pdfParse resolved without usable text.
NoTextExtracted ==
    /\ Answered
    /\ file = "blob"
    /\ thrown = NoThrow
    /\ ~Invoked("openai")

\* The transcription service answered with nothing or with no JSON.
UnparseableTranscription ==
    Answered /\ content # NoResponse /\ content.kind \in {"empty", "notjson"}

\* C11: every failure response of the upload request, whether the text
\* extraction gave no text or the transcription response could not be
\* parsed, carries an error string and the full Ledger shape with null
\* header fields, no transactions and a null verdict.
C11_FailureResponsesHaveLedgerShape ==
    (NoTextExtracted \/ UnparseableTranscription) =>
        /\ HasErrorString(response.body)
        /\ PlaceholderLedger(response.body)

\* The part of C11 that holds: an unparseable transcription response is
\* answered with the placeholder Ledger.
UnparseableTranscriptionGivesPlaceholder ==
    UnparseableTranscription =>
        /\ HasErrorString(response.body)
        /\ PlaceholderLedger(response.body)

\* Something failed on the way: an await rejected, no text came out of the
\* PDF, or the transcription response was empty, no JSON, or null.
RequestFailed ==
    \/ thrown # NoThrow
    \/ NoTextExtracted
    \/ content # NoResponse /\ content.kind \in {"empty", "notjson", "null"}

\* The handler is not stuck: before the response there is a next step.
CanProceed ==
    /\ stage \in {"start", "extracting", "transcribing"} => ENABLED NextPost
    /\ stage = "assembling" => content # NoResponse /\ version = "none"

\* How far the handler has come.
Progress(s) ==
    CASE s = "start" -> 0
      [] s = "extracting" -> 1
      [] s = "transcribing" -> 2
      [] s = "assembling" -> 3
      [] OTHER -> 4

CurrentPostAnswers ==
    route = "current" =>
        /\ stage # "escaped"
        /\ CanProceed
        /\ Answered => response.status \in {200, 400, 500}
        /\ (Answered /\ file \in {"null", "string"}) =>
              /\ response.status = 400
              /\ HasErrorString(response.body)
              /\ calls = <<>>
        /\ Invoked("openai") =>
              /\ calls = <<"pdfParse", "openai">>
              /\ text.t = "string"
              /\ Strip(text.s) # <<>>
        /\ (Answered /\ RequestFailed) => HasErrorString(response.body)

====
